---- MODULE Spec2Model ----
(***************************************************************************)
(* DirSynchronizer: a polling one-way directory mirror.                    *)
(*                                                                         *)
(* The model follows src/DirSynchronizer/main.cpp:                         *)
(*   - main()            : Logger, argument check, signal(), DirWatcher,   *)
(*                         run(), join()                                   *)
(*   - DirWatcher        : source_content (Snapshot), replica_content      *)
(*                         (Shadow Set), garbage, stop_flag, runner        *)
(*   - run_internal      : the poll loop of the worker thread              *)
(*   - report_action     : the reconciler, which mutates the replica tree  *)
(*   - sig_handler/stop  : SIGINT -> DirWatcher::stop() -> ~DirWatcher     *)
(* The source and the replica directory trees are part of the state; the   *)
(* environment creates, writes, edits and removes objects of the source.   *)
(*                                                                         *)
(* Library behaviour the C++ standard leaves to the build is a choice of   *)
(* the model: whether directory_entry caches last_write_time (cacheTime),  *)
(* the order in which a directory's entries are iterated, the thread a     *)
(* signal handler runs on, and what a second join of one std::thread does. *)
(* The file type of a directory_entry obtained from directory iteration is *)
(* taken as cached in the entry (libstdc++, libc++ and MSVC all do so).    *)
(***************************************************************************)
EXTENDS Integers, Sequences, FiniteSets, TLC

(***************************************************************************)
(* Bounds of the model.                                                    *)
(***************************************************************************)
\* Last tick of the clock: every mutation of the source tree that writes a
\* file or a directory takes one tick, so at most MaxTime of them happen.
MaxTime == 2

(***************************************************************************)
(* The universe of filesystem objects.                                     *)
(* A path is the sequence of its names below the root of its tree.         *)
(***************************************************************************)
Names == {"a", "d"}

Paths == {<<"a">>, <<"d">>, <<"d", "a">>}

\* The kinds of object the environment puts at each path: "a" is a regular
\* file, an (empty) directory or something else (fifo, socket, ...); "d" is a
\* directory; "d/a" is a regular file with the same file name as "a".
AllowedKinds(p) ==
    IF p = <<"a">> THEN {"REGULAR", "DIRECTORY", "OTHER"}
    ELSE IF p = <<"d">> THEN {"DIRECTORY"}
    ELSE {"REGULAR"}

\* An object: its kind, its last-write time, and for a regular file its
\* content, named by the tick of the clock at which it was written.
Absent == [kind |-> "ABSENT", time |-> 0, data |-> 0]

Object(k, t, c) == [kind |-> k, time |-> t, data |-> IF k = "REGULAR" THEN c ELSE 0]

EmptyTree == [p \in Paths |-> Absent]

Exists(tree, p) == tree[p].kind # "ABSENT"

Parent(p) == SubSeq(p, 1, Len(p) - 1)

IsChild(c, p) == Len(c) = Len(p) + 1 /\ Parent(c) = p

IsUnder(c, p) == Len(c) > Len(p) /\ SubSeq(c, 1, Len(p)) = p

\* A well-formed tree: an object's parent is a directory.
WellFormed(tree) ==
    \A p \in Paths :
        (Exists(tree, p) /\ Len(p) > 1) => tree[Parent(p)].kind = "DIRECTORY"

\* The trees the source directory may hold when the program starts: every
\* object was last written at time 0 and holds the content written then.
InitialTrees ==
    {t \in [Paths -> {Absent} \cup {Object(k, 0, 0) : k \in {"REGULAR", "DIRECTORY", "OTHER"}}] :
        /\ WellFormed(t)
        /\ \A p \in Paths : Exists(t, p) => t[p].kind \in AllowedKinds(p)}

(***************************************************************************)
(* std::filesystem operations on the replica tree.                         *)
(* Each returns [ok |-> BOOLEAN, tree |-> the replica afterwards]; ok is   *)
(* FALSE where the library throws filesystem_error.                        *)
(***************************************************************************)
Ok(tree) == [ok |-> TRUE, tree |-> tree]

Err(tree) == [ok |-> FALSE, tree |-> tree]

\* fs::copy_file without overwrite_existing: an existing to is an error.
copy_file_no_overwrite(src, from, rep, to) ==
    IF src[from].kind # "REGULAR" THEN Err(rep)
    ELSE IF Exists(rep, to) THEN Err(rep)
    ELSE Ok([rep EXCEPT ![to] = Object("REGULAR", 0, src[from].data)])

\* fs::copy_file(from, to, overwrite_existing): from must be a regular file;
\* an existing to must be a regular file and is overwritten.
copy_file(src, from, rep, to) ==
    IF src[from].kind # "REGULAR" THEN Err(rep)
    ELSE IF Exists(rep, to) /\ rep[to].kind # "REGULAR" THEN Err(rep)
    ELSE Ok([rep EXCEPT ![to] = Object("REGULAR", 0, src[from].data)])

\* fs::remove(p): no error when p is absent; a directory must be empty.
remove(rep, p) ==
    IF ~Exists(rep, p) THEN Ok(rep)
    ELSE IF rep[p].kind = "DIRECTORY" /\ (\E c \in Paths : IsChild(c, p) /\ Exists(rep, c))
         THEN Err(rep)
    ELSE Ok([rep EXCEPT ![p] = Absent])

\* fs::remove_all(p): removes p and everything under it.
remove_all(rep, p) ==
    Ok([q \in Paths |-> IF q = p \/ IsUnder(q, p) THEN Absent ELSE rep[q]])

\* One entry of the directory being copied by fs::copy(recursive): the child
\* c of `from` goes to to/filename(c).  Trees of the model are two levels
\* deep, so a child is a regular file or another non-directory.
CopyChild(src, c, rep, to) ==
    LET t == Append(to, c[Len(c)]) IN
    IF src[c].kind = "REGULAR" /\ t \in Paths THEN copy_file(src, c, rep, t)
    ELSE Err(rep)

RECURSIVE CopyChildren(_, _, _, _)
CopyChildren(src, cs, rep, to) ==
    IF cs = {} THEN Ok(rep)
    ELSE LET c == CHOOSE x \in cs : TRUE
             r == CopyChild(src, c, rep, to)
         IN IF r.ok THEN CopyChildren(src, cs \ {c}, r.tree, to) ELSE r

\* fs::copy(from, to, overwrite_existing | recursive) for a directory `from`:
\* an error when from is missing, or when either side is neither a file nor
\* a directory, or when to is a regular file; else to is created if missing
\* and every entry of from is copied below it.
copy(src, from, rep, to) ==
    IF ~Exists(src, from) THEN Err(rep)
    ELSE IF src[from].kind = "OTHER" \/ rep[to].kind = "OTHER" THEN Err(rep)
    ELSE IF src[from].kind = "DIRECTORY" /\ rep[to].kind = "REGULAR" THEN Err(rep)
    ELSE IF src[from].kind = "DIRECTORY"
         THEN LET made == IF Exists(rep, to) THEN rep
                          ELSE [rep EXCEPT ![to] = Object("DIRECTORY", 0, 0)]
              IN CopyChildren(src, {c \in Paths : IsChild(c, from) /\ Exists(src, c)}, made, to)
    ELSE copy_file(src, from, rep, to)

(***************************************************************************)
(* State.                                                                  *)
(***************************************************************************)
VARIABLES
    argc,             \* main's argc: the program name plus the arguments given
    cacheTime,        \* the build's directory_entry caches last_write_time
    proc,             \* the process: "running" or the way it ended
    mainPc,           \* where the main thread is in main()
    handlerInstalled, \* signal(SIGINT, sig_handler) has been called
    this_ptr,         \* DirWatcher::this_ptr is set
    stop_flag,        \* DirWatcher::stop_flag
    runner,           \* DirWatcher::runner: "null", "joinable", "joined", "destroyed"
    destroyed,        \* the watcher's members have been destroyed
    pc,               \* where the worker thread is in run_internal
    source_content,   \* the Snapshot: a set of directory entries, one per path
    replica_content,  \* the Shadow Set: the paths of its directory entries
    garbage,          \* entries scheduled for removal from the Snapshot
    source,           \* the source directory tree
    replica,          \* the replica directory tree
    now,              \* the clock that stamps last-write times
    hThread,          \* the thread sig_handler runs on, "none" before a signal
    hPc,              \* where sig_handler is
    events,           \* the calls of report_action made in the latest cycle
    log,              \* the lines given to Logger::logf in the latest cycle
    quiet,            \* a cycle is under way and the source has not changed in it
    inSync            \* the last completed cycle left the replica a mirror

vars == <<argc, cacheTime, proc, mainPc, handlerInstalled, this_ptr, stop_flag,
          runner, destroyed, pc, source_content, replica_content, garbage,
          source, replica, now, hThread, hPc, events, log, quiet, inSync>>

\* The values of argc tried: too few, one too few, right, too many.
ArgCounts == {2, 4, 5, 6}

(***************************************************************************)
(* DirWatcherCallback: the reconciler.                                     *)
(***************************************************************************)
\* get_filename: the text after the last '/' of the path.
get_filename(p) == p[Len(p)]

\* The replica path report_action builds: directory_path + "/" + get_filename.
ReplicaPath(p) == <<get_filename(p)>>

Event(action, file, p) == [action |-> action, file |-> file, path |-> p]

\* An informational line: object kind, file name, full source path, and
\* whether it says "created in Replica" or "deleted from Replica".
InfoLine(file, p, what) ==
    [severity |-> "INFO", file |-> file, name |-> get_filename(p), path |-> p, what |-> what]

\* The filesystem operation of report_action; ioError is the set of source
\* paths whose operation the operating system refuses (permissions, ...).
FsOperation(action, file, p, src, rep, ioError) ==
    LET r == IF action \in {"CREATE", "MODIFY"} /\ file = "REGULAR"
                 THEN copy_file(src, p, rep, ReplicaPath(p))
             ELSE IF action = "DELETE" /\ file = "REGULAR"
                 THEN remove(rep, ReplicaPath(p))
             ELSE IF action \in {"CREATE", "MODIFY"} /\ file = "DIRECTORY"
                 THEN copy(src, p, rep, ReplicaPath(p))
             ELSE IF action = "DELETE" /\ file = "DIRECTORY"
                 THEN remove_all(rep, ReplicaPath(p))
             ELSE Ok(rep)
    IN IF p \in ioError /\ action \in {"CREATE", "MODIFY", "DELETE"}
          /\ file \in {"REGULAR", "DIRECTORY"}
       THEN Err(rep) ELSE r

\* The lines report_action has logged when it returns or throws: for a
\* regular file the line is written before the operation, for a directory
\* after it.
LoggedLines(action, file, p, ok) ==
    LET what == IF action = "DELETE" THEN "deleted" ELSE "created" IN
    IF action \notin {"CREATE", "MODIFY", "DELETE"} THEN <<>>
    ELSE IF file = "REGULAR" THEN <<InfoLine(file, p, what)>>
    ELSE IF file = "DIRECTORY" /\ ok THEN <<InfoLine(file, p, what)>>
    ELSE <<>>

\* report_action on the state st of a pass over the tree: the call is noted,
\* the replica is changed, lines are logged; threw is set when the
\* filesystem operation throws.
report_action(action, file, p, src, st, ioError) ==
    LET r == FsOperation(action, file, p, src, st.rep, ioError) IN
    [st EXCEPT !.rep = r.tree,
               !.ev = Append(st.ev, Event(action, file, p)),
               !.lg = st.lg \o LoggedLines(action, file, p, r.ok),
               !.threw = ~r.ok]

(***************************************************************************)
(* DirWatcher::run_internal: the walk and the delete loop.                 *)
(***************************************************************************)
\* The directory_entry the iterator yields for p.
Entry(src, p) ==
    [path |-> p, kind |-> src[p].kind, time |-> IF cacheTime THEN src[p].time ELSE 0]

\* directory_entry::last_write_time: the cached value, or the file's.
last_write_time(e, src) == IF cacheTime THEN e.time ELSE src[e.path].time

\* source_content.find(entry): entries compare by path.
Find(sc, p) == {e \in sc : e.path = p}

\* The orders in which recursive_directory_iterator may yield the objects of
\* the tree: each once, a directory before its entries and its entries right
\* after it; the order among the entries of one directory is unspecified.
Orderings(S) ==
    {s \in [1..Cardinality(S) -> S] : \A x \in S : \E i \in DOMAIN s : s[i] = x}

WalkOrders(src) ==
    LET present == {p \in Paths : Exists(src, p)} IN
    {s \in Orderings(present) :
        \A i \in DOMAIN s :
            Len(s[i]) > 1 =>
                \E j \in 1..(i - 1) :
                    /\ s[j] = Parent(s[i])
                    /\ \A k \in (j + 1)..i : IsUnder(s[k], s[j])}

\* A comparison that also takes an equal time for a change.
NewerOrSame(onDisk, recorded) == onDisk >= recorded

\* The comparison of line 161: entry.last_write_time() > file_entry->last_write_time().
Newer(onDisk, recorded) == onDisk > recorded

\* The body of the walk's loop for the object at p (lines 145-173).
WalkEntry(p, src, st, ioError) ==
    LET entry == Entry(src, p)
        found == Find(st.sc, p)
    IN
    IF found = {}
    THEN LET ins == [st EXCEPT !.sc = st.sc \cup {entry}, !.rc = st.rc \cup {p}] IN
         IF entry.kind = "REGULAR"
             THEN report_action("CREATE", "REGULAR", p, src, ins, ioError)
         ELSE IF entry.kind = "DIRECTORY"
             THEN report_action("CREATE", "DIRECTORY", p, src, ins, ioError)
         ELSE ins
    ELSE LET file_entry == CHOOSE e \in found : TRUE IN
         IF Newer(src[p].time, last_write_time(file_entry, src))
         THEN IF entry.kind = "REGULAR"
                  THEN report_action("MODIFY", "REGULAR", p, src, st, ioError)
              ELSE IF entry.kind = "DIRECTORY"
                  THEN report_action("MODIFY", "DIRECTORY", p, src, st, ioError)
              ELSE st
         ELSE st

RECURSIVE WalkFrom(_, _, _, _, _)
WalkFrom(order, i, src, st, ioError) ==
    IF i > Len(order) \/ st.threw THEN st
    ELSE WalkFrom(order, i + 1, src, WalkEntry(order[i], src, st, ioError), ioError)

\* std::set iterates in the order of operator< on paths.
NameRank(n) == IF n = "a" THEN 1 ELSE 2

RECURSIVE PathLess(_, _)
PathLess(p, q) ==
    IF p = <<>> THEN q # <<>>
    ELSE IF q = <<>> THEN FALSE
    ELSE IF p[1] # q[1] THEN NameRank(p[1]) < NameRank(q[1])
    ELSE PathLess(Tail(p), Tail(q))

RECURSIVE SetOrder(_)
SetOrder(S) ==
    IF S = {} THEN <<>>
    ELSE LET m == CHOOSE e \in S : \A f \in S \ {e} : PathLess(e.path, f.path)
         IN <<m>> \o SetOrder(S \ {m})

\* The condition of line 178.
DeleteDetected(e, rc, src) == e.path \in rc /\ ~Exists(src, e.path)

\* The body of the delete loop for the Snapshot entry e (lines 178-191).
DeleteEntry(e, src, st, ioError) ==
    IF DeleteDetected(e, st.rc, src)
    THEN LET r == IF e.kind = "REGULAR"
                      THEN report_action("DELETE", "REGULAR", e.path, src, st, ioError)
                  ELSE IF e.kind = "DIRECTORY"
                      THEN report_action("DELETE", "DIRECTORY", e.path, src, st, ioError)
                  ELSE st
         IN IF r.threw THEN r ELSE [r EXCEPT !.gb = r.gb \cup {e}]
    ELSE st

RECURSIVE DeleteFrom(_, _, _, _, _)
DeleteFrom(order, i, src, st, ioError) ==
    IF i > Len(order) \/ st.threw THEN st
    ELSE DeleteFrom(order, i + 1, src, DeleteEntry(order[i], src, st, ioError), ioError)

\* The state a pass starts from.
PassState ==
    [sc |-> source_content, rc |-> replica_content, gb |-> garbage, rep |-> replica,
     ev |-> events, lg |-> log, threw |-> FALSE]

\* The replica holds the regular files and directories of the source tree,
\* at the same relative paths and with the same contents, and nothing else.
Mirror(rep, src) ==
    \A p \in Paths :
        IF src[p].kind \in {"REGULAR", "DIRECTORY"}
        THEN rep[p].kind = src[p].kind /\ rep[p].data = src[p].data
        ELSE ~Exists(rep, p)

(***************************************************************************)
(* Initial state: main() is about to run; the watcher does not exist yet.  *)
(***************************************************************************)
Init ==
    /\ argc \in ArgCounts
    /\ cacheTime \in BOOLEAN
    /\ proc = "running"
    /\ mainPc = "logger"
    /\ handlerInstalled = FALSE
    /\ this_ptr = FALSE
    /\ stop_flag = FALSE
    /\ runner = "null"
    /\ destroyed = FALSE
    /\ pc = "none"
    /\ source_content = {}
    /\ replica_content = {}
    /\ garbage = {}
    /\ source \in InitialTrees
    /\ replica = EmptyTree
    /\ now = 0
    /\ hThread = "none"
    /\ hPc = "none"
    /\ events = <<>>
    /\ log = <<>>
    /\ quiet = FALSE
    /\ inSync = FALSE

watcherVars == <<source_content, replica_content, garbage>>
treeVars == <<source, replica, now>>
cycleVars == <<events, log, quiet, inSync>>
sigVars == <<hThread, hPc>>
buildVars == <<argc, cacheTime>>

\* A thread runs unless the signal handler has taken it over.
MainRuns == proc = "running" /\ hThread # "main"
WorkerRuns == proc = "running" /\ pc \notin {"none", "done"} /\ hThread # "worker"

(***************************************************************************)
(* main()                                                                  *)
(***************************************************************************)
\* Logger logger(argv[4], ...) (line 262), before argc is looked at.  With
\* argc = 4, argv[4] is the null pointer that ends argv: outf is null and
\* outf->open dereferences it.  With fewer arguments argv[4] is read past
\* the end of argv: the Logger is built from whatever is there, or it faults.
MainLogger ==
    /\ MainRuns /\ mainPc = "logger"
    /\ \/ argc >= 5 /\ mainPc' = "argcheck" /\ proc' = proc
       \/ argc = 4 /\ proc' = "crash" /\ mainPc' = mainPc
       \/ argc < 4 /\ mainPc' = "argcheck" /\ proc' = proc
       \/ argc < 4 /\ proc' = "crash" /\ mainPc' = mainPc
    /\ UNCHANGED <<handlerInstalled, this_ptr, stop_flag, runner, destroyed, pc>>
    /\ UNCHANGED <<watcherVars, treeVars, cycleVars, sigVars, buildVars>>

\* if (5 != argc) { usage; exit(EXIT_FAILURE); } (lines 264-268)
MainArgCheck ==
    /\ MainRuns /\ mainPc = "argcheck"
    /\ IF argc # 5
       THEN proc' = "exit_failure" /\ mainPc' = mainPc
       ELSE proc' = proc /\ mainPc' = "signal"
    /\ UNCHANGED <<handlerInstalled, this_ptr, stop_flag, runner, destroyed, pc>>
    /\ UNCHANGED <<watcherVars, treeVars, cycleVars, sigVars, buildVars>>

\* signal(SIGINT, sig_handler) (line 269)
MainSignal ==
    /\ MainRuns /\ mainPc = "signal"
    /\ handlerInstalled' = TRUE
    /\ mainPc' = "construct"
    /\ UNCHANGED <<proc, this_ptr, stop_flag, runner, destroyed, pc>>
    /\ UNCHANGED <<watcherVars, treeVars, cycleVars, sigVars, buildVars>>

\* DirWatcher watcher(...) (lines 88-98, 271): the sets are empty, the flag
\* is false, runner is null, this_ptr is set.
MainConstruct ==
    /\ MainRuns /\ mainPc = "construct"
    /\ this_ptr' = TRUE
    /\ stop_flag' = FALSE
    /\ mainPc' = "run"
    /\ UNCHANGED <<proc, handlerInstalled, runner, destroyed, pc>>
    /\ UNCHANGED <<watcherVars, treeVars, cycleVars, sigVars, buildVars>>

\* watcher.run(&cb) (lines 115-118, 273): the worker thread starts at the
\* top of run_internal's loop.
MainRun ==
    /\ MainRuns /\ mainPc = "run"
    /\ runner' = "joinable"
    /\ pc' = "check"
    /\ mainPc' = "join"
    /\ UNCHANGED <<proc, handlerInstalled, this_ptr, stop_flag, destroyed>>
    /\ UNCHANGED <<watcherVars, treeVars, cycleVars, sigVars, buildVars>>

\* A join that does not wait for the thread (a detach, a wait that gives up).
JoinReturnsAtOnce == TRUE

\* std::thread::join returns once the thread has left its function.
JoinReturns == pc = "done"

\* watcher.join() (lines 120-123, 274) returns.
MainJoin ==
    /\ MainRuns /\ mainPc = "join"
    /\ JoinReturns
    /\ runner' = IF runner = "joinable" THEN "joined" ELSE runner
    /\ mainPc' = "return"
    /\ UNCHANGED <<proc, handlerInstalled, this_ptr, stop_flag, destroyed, pc>>
    /\ UNCHANGED <<watcherVars, treeVars, cycleVars, sigVars, buildVars>>

\* return 0 (line 275) runs ~DirWatcher (lines 100-105) on the watcher of
\* main: the flag is set and runner->join() is called a second time.  A
\* thread that was joined is not joinable and join throws out of the
\* destructor; a runner the handler's destructor call destroyed is gone.
MainReturn ==
    /\ MainRuns /\ mainPc = "return"
    /\ stop_flag' = IF destroyed THEN stop_flag ELSE TRUE
    /\ proc' = IF runner = "destroyed" THEN "crash" ELSE "terminate_join"
    /\ UNCHANGED <<mainPc, handlerInstalled, this_ptr, runner, destroyed, pc>>
    /\ UNCHANGED <<watcherVars, treeVars, cycleVars, sigVars, buildVars>>

(***************************************************************************)
(* The worker thread: DirWatcher::run_internal (lines 138-199).            *)
(* pc: "check" the loop condition, "sleep" in sleep_for, "walk" the loop   *)
(*     over the source tree, "deletes" the loop over the Snapshot, "prune" *)
(*     the loop over garbage, "done" returned.                             *)
(***************************************************************************)
\* while (false == stop_flag.load()) (line 140)
LoopCheck ==
    /\ WorkerRuns /\ pc = "check"
    /\ pc' = IF stop_flag THEN "done" ELSE "sleep"
    /\ events' = <<>>
    /\ log' = <<>>
    /\ UNCHANGED <<proc, mainPc, handlerInstalled, this_ptr, stop_flag, runner, destroyed>>
    /\ UNCHANGED <<watcherVars, treeVars, quiet, inSync, sigVars, buildVars>>

\* sleep_for(synch_interval) returns (line 142); the flag is not read here.
Wake ==
    /\ WorkerRuns /\ pc = "sleep"
    /\ pc' = "walk"
    /\ UNCHANGED <<proc, mainPc, handlerInstalled, this_ptr, stop_flag, runner, destroyed>>
    /\ UNCHANGED <<watcherVars, treeVars, cycleVars, sigVars, buildVars>>

\* The sets of paths whose filesystem operation fails for a reason outside
\* the trees of the model: none, or one path.
IoErrors == {{}} \cup {{p} : p \in Paths}

\* An exception that leaves run_internal is caught nowhere: std::terminate.
AfterPass(st, next) ==
    /\ source_content' = st.sc
    /\ replica_content' = st.rc
    /\ garbage' = st.gb
    /\ replica' = st.rep
    /\ events' = st.ev
    /\ log' = st.lg
    /\ IF st.threw
       THEN proc' = "terminate_io" /\ pc' = pc
       ELSE proc' = proc /\ pc' = next

\* for (auto& entry : fs::recursive_directory_iterator(source)) (lines 143-174)
Walk ==
    /\ WorkerRuns /\ pc = "walk"
    /\ \E order \in WalkOrders(source), ioError \in IoErrors :
          AfterPass(WalkFrom(order, 1, source, PassState, ioError), "deletes")
    /\ quiet' = TRUE
    /\ UNCHANGED <<mainPc, handlerInstalled, this_ptr, stop_flag, runner, destroyed>>
    /\ UNCHANGED <<source, now, inSync, sigVars, buildVars>>

\* for (auto& entry : source_content) (lines 176-192)
DeleteLoop ==
    /\ WorkerRuns /\ pc = "deletes"
    /\ \E ioError \in IoErrors :
          AfterPass(DeleteFrom(SetOrder(source_content), 1, source, PassState, ioError),
                    "prune")
    /\ UNCHANGED <<mainPc, handlerInstalled, this_ptr, stop_flag, runner, destroyed>>
    /\ UNCHANGED <<source, now, quiet, inSync, sigVars, buildVars>>

\* A loop over garbage that erases nothing (garbage cleared before the loop).
ErasedNothing(sc, gb) == sc

\* source_content.erase(elem) for the elements of garbage (lines 193-196):
\* erase goes by the set's key, the path.
Erased(sc, gb) == {e \in sc : \A g \in gb : g.path # e.path}

\* A loop over garbage that erases its elements from the Shadow Set too.
ShadowPruned(rc, gb) == rc \ {g.path : g \in gb}

\* The Shadow Set after the loop over garbage: nothing is erased from
\* replica_content there, nor anywhere else in the class.
ShadowAfterPrune(rc, gb) == rc

\* The end of a cycle (lines 193-198): garbage is erased from the Snapshot
\* and cleared, and the loop goes back to its condition.
Prune ==
    /\ WorkerRuns /\ pc = "prune"
    /\ source_content' = Erased(source_content, garbage)
    /\ replica_content' = ShadowAfterPrune(replica_content, garbage)
    /\ garbage' = {}
    /\ pc' = "check"
    /\ inSync' = (quiet /\ Mirror(replica, source))
    /\ quiet' = FALSE
    /\ UNCHANGED <<proc, mainPc, handlerInstalled, this_ptr, stop_flag, runner, destroyed>>
    /\ UNCHANGED <<treeVars, events, log, sigVars, buildVars>>

(***************************************************************************)
(* The environment: mutations of the source tree while the worker polls.   *)
(***************************************************************************)
\* The tree is changed while the worker polls and no stop has been asked for.
EnvRuns == proc = "running" /\ pc \notin {"none", "done"} /\ ~stop_flag

\* Writing an entry of a directory (creating or removing a child) stamps the
\* directory.
Stamp(tree, p, t) ==
    IF Len(p) > 1 THEN [tree EXCEPT ![Parent(p)].time = t] ELSE tree

EnvFrame ==
    /\ replica' = replica
    /\ quiet' = FALSE
    /\ UNCHANGED <<proc, mainPc, handlerInstalled, this_ptr, stop_flag, runner, destroyed, pc>>
    /\ UNCHANGED <<watcherVars, events, log, inSync, sigVars, buildVars>>

\* An object of kind k appears at p.
EnvCreate ==
    /\ EnvRuns /\ now < MaxTime
    /\ \E p \in Paths, k \in {"REGULAR", "DIRECTORY", "OTHER"} :
          /\ k \in AllowedKinds(p)
          /\ ~Exists(source, p)
          /\ Len(p) > 1 => source[Parent(p)].kind = "DIRECTORY"
          /\ source' = Stamp([source EXCEPT ![p] = Object(k, now + 1, now + 1)], p, now + 1)
    /\ now' = now + 1
    /\ EnvFrame

\* A regular file is written: new content, new last-write time.
EnvWrite ==
    /\ EnvRuns /\ now < MaxTime
    /\ \E p \in Paths :
          /\ source[p].kind = "REGULAR"
          /\ source' = [source EXCEPT ![p] = Object("REGULAR", now + 1, now + 1)]
    /\ now' = now + 1
    /\ EnvFrame

\* A regular file is edited and its last-write time is left as it was (the
\* time is put back, or the clock's granularity hides the change).
EnvEdit ==
    /\ EnvRuns /\ now < MaxTime
    /\ \E p \in Paths :
          /\ source[p].kind = "REGULAR"
          /\ source' = [source EXCEPT ![p].data = now + 1]
    /\ now' = now + 1
    /\ EnvFrame

\* The object at p is removed, with everything under it.
EnvRemove ==
    /\ EnvRuns
    /\ \E p \in Paths :
          /\ Exists(source, p)
          /\ Len(p) > 1 => now < MaxTime
          /\ LET t == IF Len(p) > 1 THEN now + 1 ELSE now IN
             /\ source' = Stamp([q \in Paths |->
                                    IF q = p \/ IsUnder(q, p) THEN Absent ELSE source[q]],
                                p, t)
             /\ now' = t
    /\ EnvFrame

(***************************************************************************)
(* SIGINT: sig_handler (lines 254-258), DirWatcher::stop (lines 130-134)   *)
(* and the destructor it calls (lines 100-105).                            *)
(* hPc: "none" no signal yet, "waiting" inside runner->join(), "deadlock"  *)
(*      joined to itself, "exit" at exit(EXIT_SUCCESS).                    *)
(***************************************************************************)
\* The threads the handler may run on: the main thread or the worker (POSIX
\* delivers to any thread that does not block the signal), or a thread of
\* its own (the Windows runtime starts one for the handler).
HandlerThreads ==
    {"main", "other"} \cup (IF pc \notin {"none", "done"} THEN {"worker"} ELSE {})

\* sig_handler up to the point where it blocks or ends:
\*   stop(): if (this_ptr) this_ptr->~DirWatcher()        (lines 132-133)
\*   ~DirWatcher: stop_flag = true; runner->join()        (lines 102-103)
\*  - without a watcher stop() does nothing and exit(EXIT_SUCCESS) follows;
\*  - runner is null before run(): a null pointer is dereferenced;
\*  - on the worker thread the thread joins itself: the library throws
\*    resource_deadlock_would_occur out of the destructor, or waits for ever;
\*  - elsewhere the main thread is already inside join on the same
\*    std::thread: the second join throws (invalid_argument) or waits too.
SigHandler ==
    /\ proc = "running" /\ handlerInstalled /\ hPc = "none"
    /\ hThread' \in HandlerThreads
    /\ \/ ~this_ptr /\ stop_flag' = stop_flag /\ hPc' = "exit" /\ proc' = "exit_success"
       \/ this_ptr /\ stop_flag' = TRUE
             /\ \/ runner = "null" /\ proc' = "crash" /\ hPc' = "join"
                \/ runner = "joinable" /\ hThread' = "worker"
                      /\ proc' = "terminate_join" /\ hPc' = "join"
                \/ runner = "joinable" /\ hThread' = "worker"
                      /\ proc' = proc /\ hPc' = "deadlock"
                \/ runner = "joinable" /\ hThread' # "worker"
                      /\ proc' = "terminate_join" /\ hPc' = "join"
                \/ runner = "joinable" /\ hThread' # "worker"
                      /\ proc' = proc /\ hPc' = "waiting"
    /\ UNCHANGED <<mainPc, handlerInstalled, this_ptr, runner, destroyed, pc>>
    /\ UNCHANGED <<watcherVars, treeVars, cycleVars, buildVars>>

\* The handler's join returns and the destructor ends: this_ptr = nullptr
\* (line 104), then the members (the sets, garbage, runner) are destroyed.
\* When the main thread's join of the same thread returned first, the
\* handler's join returns as well or throws.
HandlerJoined ==
    /\ proc = "running" /\ hPc = "waiting"
    /\ JoinReturns
    /\ \/ /\ this_ptr' = FALSE
          /\ destroyed' = TRUE
          /\ runner' = "destroyed"
          /\ source_content' = {}
          /\ replica_content' = {}
          /\ garbage' = {}
          /\ hPc' = "exit"
          /\ proc' = proc
       \/ /\ runner = "joined"
          /\ proc' = "terminate_join"
          /\ UNCHANGED <<this_ptr, destroyed, runner, watcherVars, hPc>>
    /\ UNCHANGED <<mainPc, handlerInstalled, stop_flag, pc, hThread>>
    /\ UNCHANGED <<treeVars, cycleVars, buildVars>>

\* exit(EXIT_SUCCESS) (line 257)
HandlerExit ==
    /\ proc = "running" /\ hPc = "exit"
    /\ proc' = "exit_success"
    /\ UNCHANGED <<mainPc, handlerInstalled, this_ptr, stop_flag, runner, destroyed, pc>>
    /\ UNCHANGED <<watcherVars, treeVars, cycleVars, sigVars, buildVars>>

Next ==
    \/ MainLogger \/ MainArgCheck \/ MainSignal \/ MainConstruct \/ MainRun
    \/ MainJoin \/ MainReturn
    \/ LoopCheck \/ Wake \/ Walk \/ DeleteLoop \/ Prune
    \/ EnvCreate \/ EnvWrite \/ EnvEdit \/ EnvRemove
    \/ SigHandler \/ HandlerJoined \/ HandlerExit

Spec == Init /\ [][Next]_vars

(***************************************************************************)
(* The reconciler on its own: report_action called with any event, on any  *)
(* replica directory the user may have named.  An exception leaves the     *)
(* worker's thread function, as it does in the poll loop.                  *)
(***************************************************************************)
\* The calls of report_action made in one run of SpecApply.
MaxEvents == 2

\* DirWatcherCallbackBase::action_t and file_t (lines 24-25).
Actions == {"CREATE", "MODIFY", "DELETE", "UNEXPECTED_ACTION"}

Files == {"DIRECTORY", "REGULAR", "UNEXPECTED_FILE"}

\* What the replica directory may hold when an event is applied to it.
ReplicaTrees ==
    {t \in [Paths -> {Absent} \cup {Object(k, 0, c) : k \in {"REGULAR", "DIRECTORY", "OTHER"},
                                                      c \in {0, 1}}] :
        /\ WellFormed(t)
        /\ \A p \in Paths : Exists(t, p) => t[p].kind \in AllowedKinds(p)}

\* The watcher is running and its worker is about to report events.
InitApply ==
    /\ argc = 5
    /\ cacheTime = FALSE
    /\ proc = "running"
    /\ mainPc = "join"
    /\ handlerInstalled = TRUE
    /\ this_ptr = TRUE
    /\ stop_flag = FALSE
    /\ runner = "joinable"
    /\ destroyed = FALSE
    /\ pc = "walk"
    /\ source_content = {}
    /\ replica_content = {}
    /\ garbage = {}
    /\ source \in InitialTrees
    /\ replica \in ReplicaTrees
    /\ now = 0
    /\ hThread = "none"
    /\ hPc = "none"
    /\ events = <<>>
    /\ log = <<>>
    /\ quiet = FALSE
    /\ inSync = FALSE

\* callback->report_action(action, file, path, replica) (lines 210-237).
Apply ==
    /\ proc = "running" /\ Len(events) < MaxEvents
    /\ \E action \in Actions, file \in Files, p \in Paths :
          AfterPass(report_action(action, file, p, source, PassState, {}), pc)
    /\ UNCHANGED <<mainPc, handlerInstalled, this_ptr, stop_flag, runner, destroyed>>
    /\ UNCHANGED <<source, now, quiet, inSync, sigVars, buildVars>>

NextApply == Apply

SpecApply == InitApply /\ [][NextApply]_vars

(***************************************************************************)
(* Properties.                                                             *)
(***************************************************************************)
MidCycle == {"walk", "deletes", "prune"}

\* The calls of report_action of the latest cycle that report `action` for p.
Reports(evs, action, p) == {i \in DOMAIN evs : evs[i].action = action /\ evs[i].path = p}

\* C1: when a cycle completes in which no filesystem operation failed and
\* during which the source did not change, and the cycle before it had left
\* the replica a mirror of the source, the replica is again a mirror of the
\* source: the same relative paths, kinds and contents.
C1_ReplicaMirrorsSource ==
    [][(pc = "prune" /\ pc' = "check" /\ inSync /\ quiet) => Mirror(replica', source')]_vars

\* C2: a walk that meets an object of the Snapshot whose last-write time on
\* disk is newer than the recorded one reports a modify for it and leaves the
\* recorded time equal to the one on disk, so that the next walk is silent.
C2_ModifyUpdatesRecordedTime ==
    [][(pc = "walk" /\ pc' = "deletes") =>
          /\ \A e \in source_content :
                (/\ source[e.path].kind \in {"REGULAR", "DIRECTORY"}
                 /\ source[e.path].time > last_write_time(e, source))
                    => Reports(events', "MODIFY", e.path) # {}
          /\ \A e \in source_content' :
                Exists(source, e.path) => last_write_time(e, source) = source[e.path].time]_vars

\* C3: when the delete loop completes, every Snapshot entry of kind regular
\* file or directory that is in the Shadow Set and is gone from the source has
\* had exactly one delete reported for it, of the entry's kind, and is
\* scheduled for removal; deletes are reported for Snapshot entries only; and
\* the end of the cycle leaves no scheduled entry in the Snapshot, so that a
\* later cycle reports a delete for the path only after a walk has put it
\* back.
C3_DeleteReportedOnceThenPruned ==
    [][/\ (pc = "deletes" /\ pc' = "prune") =>
             /\ \A e \in source_content :
                   (/\ e.kind \in {"REGULAR", "DIRECTORY"}
                    /\ e.path \in replica_content
                    /\ ~Exists(source, e.path))
                       => /\ Cardinality(Reports(events', "DELETE", e.path)) = 1
                          /\ \A i \in Reports(events', "DELETE", e.path) :
                                events'[i].file = e.kind
                          /\ e \in garbage'
             /\ \A i \in DOMAIN events' :
                   events'[i].action = "DELETE" => Find(source_content, events'[i].path) # {}
       /\ (pc = "prune" /\ pc' = "check") =>
             \A e \in garbage : Find(source_content', e.path) = {}]_vars

\* C3 witness: a cycle has ended in which a delete was reported for a
\* directory and for a regular file, and neither is in the Snapshot any more.
C3_Witness ==
    /\ pc = "check"
    /\ \E i, j \in DOMAIN events :
          /\ events[i].action = "DELETE" /\ events[i].file = "DIRECTORY"
          /\ events[j].action = "DELETE" /\ events[j].file = "REGULAR"
          /\ Find(source_content, events[i].path) = {}
          /\ Find(source_content, events[j].path) = {}

\* C4: a failing filesystem operation of the reconciler does not end the
\* poll loop: the process is never terminated by the exception.
C4_FailureDoesNotStopTheLoop == proc # "terminate_io"

\* C5: once the stop flag is set while the worker is idle (at the loop
\* condition or asleep), the worker starts no further scan.
C5_NoScanAfterStopWhileIdle ==
    [][(stop_flag /\ pc \in {"check", "sleep"}) => pc' \notin MidCycle]_vars

\* C6: a stop request that finds the worker inside a cycle lets the cycle
\* finish: the process is not ended, and the worker is not blocked, by the
\* stop while the worker is part-way through the cycle.
C6_StopLetsTheCycleFinish ==
    ~(pc \in MidCycle /\ (proc = "terminate_join" \/ hPc = "deadlock"))

\* C7: stop() does not return and the watcher's members are not destroyed
\* before the worker has left run_internal, and while the worker is inside
\* run_internal the handler changes nothing of the watcher but the stop flag.
C7_StopJoinsTheWorker ==
    /\ [](destroyed => pc = "done")
    /\ [](hPc = "exit" => pc \in {"none", "done"})
    /\ [][(pc \notin {"none", "done"} /\ hPc' # hPc) =>
             UNCHANGED <<source_content, replica_content, garbage, runner, this_ptr,
                         destroyed>>]_vars

\* C7 witness: the handler waited in join while the worker ran, the worker
\* has returned, and the watcher has been torn down.
C7_Witness == destroyed /\ pc = "done" /\ hPc = "exit" /\ stop_flag

\* C8: an interrupt delivered while the worker thread exists leads to an
\* orderly shutdown: the handler's stop neither terminates the process
\* abnormally nor blocks for ever.
C8_InterruptShutsDownOrderly ==
    (hPc # "none" /\ pc # "none") =>
        (proc \notin {"terminate_join", "crash"} /\ hPc # "deadlock")

\* C9: the end of a cycle removes an entry from the Snapshot only if a delete
\* for that entry was reported to the reconciler in the cycle.
C9_RemovedOnlyAfterDeleteReported ==
    [][(pc = "prune" /\ pc' = "check") =>
          \A e \in source_content :
              Find(source_content', e.path) = {} => Reports(events, "DELETE", e.path) # {}]_vars

C11_NewDirectoryIsOneCreate ==
    [][(pc = "walk" /\ pc' = "deletes" /\ inSync) =>
          \A p \in Paths :
              (/\ source[p].kind = "DIRECTORY"
               /\ Find(source_content, p) = {}
               /\ \E q \in Paths : IsUnder(q, p) /\ Exists(source, q))
                  => /\ Cardinality(Reports(events', "CREATE", p)) = 1
                     /\ \A q \in Paths : IsUnder(q, p) => Reports(events', "CREATE", q) = {}]_vars

\* C12: a walk that meets an object which is not in the Snapshot and is
\* neither a regular file nor a directory logs a warning for it and reports
\* no create for it.
C12_UnexpectedObjectIsWarned ==
    [][(pc = "walk" /\ pc' = "deletes") =>
          \A p \in Paths :
              (source[p].kind = "OTHER" /\ Find(source_content, p) = {})
                  => /\ \E i \in DOMAIN log' :
                           log'[i].severity = "WARNING" /\ log'[i].path = p
                     /\ Reports(events', "CREATE", p) = {}]_vars

\* C13: the end of a cycle leaves an entry for which a delete was detected
\* in neither the Snapshot nor the Shadow Set.
C13_BothSetsPrunedOnDelete ==
    [][(pc = "prune" /\ pc' = "check") =>
          \A e \in garbage :
              Find(source_content', e.path) = {} /\ e.path \notin replica_content']_vars

\* C14: a walk reports nothing for a Snapshot entry whose object is on disk
\* with a last-write time that is not newer than the recorded one, whatever
\* the object's content, and the delete loop reports no delete for an object
\* that is on disk.
C14_NoEventWithoutNewerTime ==
    /\ [][(pc = "walk" /\ pc' = "deletes") =>
             \A e \in source_content :
                 (Exists(source, e.path) /\ source[e.path].time <= last_write_time(e, source))
                     => \A i \in DOMAIN events' : events'[i].path # e.path]_vars
    /\ [][(pc = "deletes" /\ pc' = "prune") =>
             \A p \in Paths : Exists(source, p) => Reports(events', "DELETE", p) = {}]_vars

\* C14 witness: a regular file of the Snapshot was edited after it was last
\* mirrored, its last-write time is older than the edit, and a walk has
\* since passed without the source changing and without an event for it.
C14_Witness ==
    /\ pc = "deletes" /\ quiet
    /\ \E e \in source_content :
          /\ source[e.path].kind = "REGULAR"
          /\ source[e.path].data > source[e.path].time
          /\ replica[ReplicaPath(e.path)].data # source[e.path].data
          /\ \A i \in DOMAIN events : events[i].path # e.path

\* The event of the call of report_action made by the step, if it made one.
Applied == Len(events') = Len(events) + 1

LastEvent(evs) == evs[Len(evs)]

\* C15: a create or modify of a regular file or directory that is applied
\* right after the same event was applied, with the source object as it was,
\* succeeds again and leaves the replica tree as the first left it.
C15_SecondApplyChangesNothing ==
    [][(/\ Applied /\ events # <<>>
        /\ LastEvent(events') = LastEvent(events)
        /\ LastEvent(events).action \in {"CREATE", "MODIFY"}
        /\ LastEvent(events).file \in {"REGULAR", "DIRECTORY"}
        /\ LastEvent(events).file = source[LastEvent(events).path].kind)
           => replica' = replica /\ proc' = "running"]_vars

\* C15 witness: the create of a directory that holds a file has been applied
\* twice in a row, and the replica holds the directory and the file.
C15_Witness ==
    /\ proc = "running" /\ Len(events) = 2 /\ events[1] = events[2]
    /\ events[1].action = "CREATE"
    /\ events[1].file = "DIRECTORY"
    /\ source[events[1].path].kind = "DIRECTORY"
    /\ replica[events[1].path].kind = "DIRECTORY"
    /\ \E q \in Paths :
          /\ IsUnder(q, events[1].path)
          /\ source[q].kind = "REGULAR"
          /\ replica[q] = Object("REGULAR", 0, source[q].data)

\* C16: a program started with an argument count other than four arguments
\* ends by the usage exit only: it does not fault, and no watcher is made.
C16_BadArgcOnlyUsageExit ==
    argc # 5 => (proc \in {"running", "exit_failure"} /\ ~this_ptr /\ pc = "none")

\* C17: report_action called with an unexpected action or an unexpected file
\* type logs one warning and leaves the replica tree as it was.
C17_UnexpectedCombinationIsWarned ==
    [][(/\ Applied
        /\ \/ LastEvent(events').action = "UNEXPECTED_ACTION"
           \/ LastEvent(events').file = "UNEXPECTED_FILE")
           => /\ replica' = replica
              /\ Len(log') = Len(log) + 1
              /\ log'[Len(log')].severity = "WARNING"]_vars

\* C18: report_action called with a create or modify of a regular file or
\* directory of the source, or with a delete of one that is gone, logs its informational line
\* once when the filesystem operation succeeded, and logs nothing when the
\* operation failed.
C18_InfoLineOnlyAfterSuccess ==
    [][(/\ Applied
        /\ LastEvent(events').action \in {"CREATE", "MODIFY", "DELETE"}
        /\ LastEvent(events').file \in {"REGULAR", "DIRECTORY"}
        /\ IF LastEvent(events').action = "DELETE"
           THEN ~Exists(source, LastEvent(events').path)
           ELSE LastEvent(events').file = source[LastEvent(events').path].kind)
           => IF proc' = "running"
              THEN /\ Len(log') = Len(log) + 1
                   /\ log'[Len(log')].severity = "INFO"
                   /\ log'[Len(log')].file = LastEvent(events').file
                   /\ log'[Len(log')].path = LastEvent(events').path
                   /\ SubSeq(log', 1, Len(log)) = log
              ELSE log' = log]_vars

\* C19: the delete loop leaves every replica object whose source object is
\* still there as it was: a delete touches the mirror of the deleted object
\* only.
C19_DeleteTouchesOnlyItsObject ==
    [][(pc = "deletes" /\ pc' = "prune") =>
          \A q \in Paths : Exists(source, q) => replica'[q] = replica[q]]_vars

\* C20: a stop request that finds the watcher constructed and its thread
\* handle missing (run() not called yet) or already joined does not fault
\* and does not join a second time.
C20_StopSafeWithoutWorker ==
    (this_ptr /\ stop_flag /\ runner \in {"null", "joined"})
        => proc \notin {"crash", "terminate_join"}

====
